---- MODULE Spec2Model ----
(***************************************************************************)
(* Browser-side authentication and notification layer (js/auth.js,         *)
(* js/page-auth.js) over a managed identity provider and document store.   *)
(* Every await on a backend call is one atomic step at the backend; the    *)
(* synchronous code that follows it is part of the same step.              *)
(***************************************************************************)
EXTENDS Integers, Sequences, FiniteSets, TLC

\* ---------------------------------------------------------------- bounds
MaxTime == 2
MaxItems == 2
MaxCalls == 2
MaxTabCalls == 3
MaxOps == 2
MaxUid == 3
MaxAdminCalls == 2

\* ------------------------------------------------------------- constants
NoUser == 0
Undefined == 0
CountOnError == 0
System == -1
BadgeCap == 99
MinPasswordLen == 6

Clients == {"tab1", "tab2"}
Collections == {"products", "inbound", "outbound"}
NoPage == "none"
Uids == 1..MaxUid
Times == 1..MaxTime
LoginUrl == "login.html"
NoUrl == "here"

VARIABLES
    users,            \* document store, collection "users": uid -> profile
    idp,              \* identity provider: uid -> credential record
    views,            \* document store, collection "userPageViews": uid -> record
    items,            \* tracked collections: name -> sequence of createdAt
    now,              \* server clock
    session,          \* auth.currentUser of each client
    pc,               \* position of the running operation of each client
    loc,              \* locals of the running operation
    result,           \* what the last operation returned (or that it threw)
    redirect,         \* window.location.href of each client
    currentUserData,  \* page-auth.js module global
    badge,            \* sidebar badges of each client
    counts,           \* values getNewItemsCount returned in the last load
    failed,           \* backend calls that failed in the running operation
    calls,            \* backend calls issued by the running operation
    form,             \* the profile form's input fields
    left,             \* operations the clients may still start
    replaced          \* history: the timestamp the load's mark-viewed write replaced
                      \* and the number of items its collection held then

vars == <<users, idp, views, items, now, session, pc, loc, result, redirect,
          currentUserData, badge, counts, failed, calls, form, left, replaced>>

backend == <<users, idp, views, items, now>>

\* ------------------------------------------------------------ data model
EmptyMap == [k \in {} |-> 0]
NoDoc == [exists |-> FALSE]
NoViews == [exists |-> FALSE, data |-> EmptyMap]
NoLoc == [op |-> "none"]
NoResult == [kind |-> "none"]
NoData == [uid |-> NoUser]
NoReplaced == [old |-> Undefined, size |-> 0]
NotCalled == -1
EmptyForm ==
    [displayName |-> "", email |-> "", currentPassword |-> "", newPassword |-> "",
     confirmPassword |-> ""]
InitialBadge == [display |-> "initial", text |-> 0, plus |-> FALSE]

Profile(username, email, role, displayName, createdAt, createdBy) ==
    [exists |-> TRUE, username |-> username, email |-> email, role |-> role,
     displayName |-> displayName, createdAt |-> createdAt, createdBy |-> createdBy]

Identity(email, password) == [exists |-> TRUE, email |-> email, password |-> password]

\* { uid: user.uid, ...userDoc.data() }
UserData(uid, d) ==
    [uid |-> uid, username |-> d.username, email |-> d.email, role |-> d.role,
     displayName |-> d.displayName, createdAt |-> d.createdAt, createdBy |-> d.createdBy]

\* userViewsDoc.exists() ? userViewsDoc.data() : {}
DocData(v) == IF v.exists THEN v.data ELSE EmptyMap

\* lastViews[collectionName]: a missing key reads as undefined
Field(data, k) == IF k \in DOMAIN data THEN data[k] ELSE Undefined

\* the record's fields as loadNotificationCounts reads them
Fields(data) == [col \in Collections |-> Field(data, col)]

\* mutant: the "never viewed" guard is missing
Absent_Never(lastViewed) == FALSE

\* !lastViewedTimestamp
Absent(lastViewed) == lastViewed = Undefined

\* mutant: '>=' in place of '>'
QueryNewer_Inclusive(col, t) == {i \in DOMAIN items[col] : items[col][i] >= t}

\* query(collectionRef, where(dateField, '>', lastViewedTimestamp)): the matching documents
QueryNewer(col, t) == {i \in DOMAIN items[col] : items[col][i] > t}

\* mutant: the size of the whole collection
QuerySize_Collection(col, t) == Len(items[col])

\* querySnapshot.size
QuerySize(col, t) == Cardinality(QueryNewer(col, t))

\* mutant: the page's own timestamp is left out of the write
ViewPayload_StaleOnly(currentData, page, ts) == currentData

\* { ...currentData, [pageName]: serverTimestamp() }
ViewPayload(currentData, page, ts) ==
    [k \in DOMAIN currentData \cup {page} |-> IF k = page THEN ts ELSE currentData[k]]

\* setDoc(ref, data, { merge: true }): fields of data are written, the others kept
SetDocMerge(old, data) ==
    [exists |-> TRUE,
     data |-> [k \in DOMAIN DocData(old) \cup DOMAIN data |->
                  IF k \in DOMAIN data THEN data[k] ELSE old.data[k]]]

\* mutant: a zero count leaves the badge as it is
UpdateBadge_NoHide(b, count) ==
    IF count > 0
    THEN [display |-> "inline-flex", text |-> count, plus |-> FALSE]
    ELSE b

\* updateBadge(badgeId, count)
UpdateBadge(b, count) ==
    IF count > 0
    THEN [display |-> "inline-flex",
          text |-> IF count > BadgeCap THEN BadgeCap ELSE count,
          plus |-> count > BadgeCap]
    ELSE [b EXCEPT !.display = "none"]

\* ------------------------------------------------------------- page load
Idle(c) == pc[c] \in {"idle", "hung"}

Begin(c) ==
    /\ Idle(c)
    /\ left > 0
    /\ left' = left - 1
    /\ replaced' = [replaced EXCEPT ![c] = NoReplaced]
    /\ failed' = [failed EXCEPT ![c] = {}]
    /\ calls' = [calls EXCEPT ![c] = {}]

\* initPageAuth(currentPage) on a freshly loaded page, up to requireAuth's
\* registration of its auth-state listener
InitPageAuth(c, page) ==
    /\ Begin(c)
    /\ result' = [result EXCEPT ![c] = NoResult]
    /\ pc' = [pc EXCEPT ![c] = "requireAuth"]
    /\ loc' = [loc EXCEPT ![c] = [op |-> "initPageAuth", page |-> page]]
    /\ currentUserData' = [currentUserData EXCEPT ![c] = NoData]
    /\ badge' = [badge EXCEPT ![c] = [col \in Collections |-> InitialBadge]]
    /\ counts' = [counts EXCEPT ![c] = [col \in Collections |-> NotCalled]]
    /\ redirect' = [redirect EXCEPT ![c] = NoUrl]
    /\ UNCHANGED <<backend, form, session>>

\* mutant: the profile's existence is not checked
GetCurrentUserData_NoExistsCheck(uid, ok) ==
    IF ~ok THEN NoData
    ELSE IF users[uid].exists THEN UserData(uid, users[uid]) ELSE [uid |-> uid]

\* mutant: the first profile of the collection, whoever is signed in
GetCurrentUserData_FirstUser(uid, ok) ==
    IF ok /\ users[1].exists THEN UserData(1, users[1]) ELSE NoData

\* getCurrentUserData(): the profile of `uid`, or null (NoData) when the lookup
\* throws or no profile record exists
GetCurrentUserData(uid, ok) ==
    IF ok /\ users[uid].exists THEN UserData(uid, users[uid]) ELSE NoData

IsNull(d) == d.uid = NoUser

\* where initPageAuth goes once loadNotificationCounts has returned
AfterCounts(l) ==
    IF l.op = "initPageAuth" /\ l.page # NoPage THEN "markRead" ELSE "idle"

\* what the running page operation returns
Returned(l) ==
    IF l.op = "initPageAuth"
    THEN [kind |-> "value", op |-> l.op, user |-> l.user, page |-> l.page]
    ELSE [kind |-> "value", op |-> l.op]

\* pc, loc and result of client c once loadNotificationCounts has returned
LeaveCounts(c) ==
    /\ pc' = [pc EXCEPT ![c] = AfterCounts(loc[c])]
    /\ IF AfterCounts(loc[c]) = "idle"
       THEN /\ loc' = [loc EXCEPT ![c] = NoLoc]
            /\ result' = [result EXCEPT ![c] = Returned(loc[c])]
       ELSE /\ loc' = [loc EXCEPT ![c] = [op |-> loc[c].op, page |-> loc[c].page,
                                          user |-> loc[c].user]]
            /\ UNCHANGED result

\* the three updateBadge calls of loadNotificationCounts
ShowCounts(b, cnt) == [col \in Collections |-> UpdateBadge(b[col], cnt[col])]

\* requireAuth: the first onAuthStateChanged callback
RequireAuthCallback(c) ==
    /\ pc[c] = "requireAuth"
    /\ IF session[c] = NoUser
       THEN /\ redirect' = [redirect EXCEPT ![c] = LoginUrl]
            /\ pc' = [pc EXCEPT ![c] = "hung"]
            /\ loc' = [loc EXCEPT ![c] = NoLoc]
            /\ UNCHANGED calls
       ELSE /\ pc' = [pc EXCEPT ![c] = "getCurrentUserData"]
            /\ loc' = [loc EXCEPT ![c] = [op |-> loc[c].op, page |-> loc[c].page,
                                          uid |-> session[c]]]
            /\ calls' = [calls EXCEPT ![c] = @ \cup {"getDoc"}]
            /\ UNCHANGED redirect
    /\ UNCHANGED <<backend, form, session, result, currentUserData, badge, counts, failed, left, replaced>>

\* requireAuth: getCurrentUserData answers; resolve(userData) or redirect.  On
\* resolve initPageAuth stores the user and loadNotificationCounts issues its getDoc
RequireAuthResolve(c) ==
    /\ pc[c] = "getCurrentUserData"
    /\ loc[c].op = "initPageAuth"
    /\ \E ok \in BOOLEAN :
         LET userData == GetCurrentUserData(loc[c].uid, ok) IN
         /\ failed' = [failed EXCEPT ![c] = IF ok THEN @ ELSE @ \cup {"profile"}]
         /\ IF IsNull(userData)
            THEN /\ redirect' = [redirect EXCEPT ![c] = LoginUrl]
                 /\ pc' = [pc EXCEPT ![c] = "hung"]
                 /\ loc' = [loc EXCEPT ![c] = NoLoc]
                 /\ UNCHANGED <<currentUserData, calls>>
            ELSE /\ currentUserData' = [currentUserData EXCEPT ![c] = userData]
                 /\ pc' = [pc EXCEPT ![c] = "loadViews"]
                 /\ loc' = [loc EXCEPT ![c] = [op |-> loc[c].op, page |-> loc[c].page,
                                               user |-> userData]]
                 /\ calls' = [calls EXCEPT ![c] = @ \cup {"getDoc:views"}]
                 /\ UNCHANGED redirect
    /\ UNCHANGED <<backend, form, session, result, badge, counts, left, replaced>>

\* refreshNotifications(user), called by a loaded page with its user
RefreshNotifications(c) ==
    /\ Begin(c)
    /\ ~IsNull(currentUserData[c])
    /\ result' = [result EXCEPT ![c] = NoResult]
    /\ pc' = [pc EXCEPT ![c] = "loadViews"]
    /\ loc' = [loc EXCEPT ![c] = [op |-> "refreshNotifications", page |-> NoPage,
                                  user |-> currentUserData[c]]]
    /\ counts' = [counts EXCEPT ![c] = [col \in Collections |-> NotCalled]]
    /\ UNCHANGED <<backend, form, session, redirect, currentUserData, badge>>

\* loadNotificationCounts: the view-state getDoc answers; getNewItemsCount is
\* called for the three collections and returns 0 at once where no timestamp
\* is recorded
LoadViews(c) ==
    /\ pc[c] = "loadViews"
    /\ \E ok \in BOOLEAN :
         IF ~ok
         THEN /\ failed' = [failed EXCEPT ![c] = @ \cup {"views"}]
              /\ LeaveCounts(c)
              /\ UNCHANGED <<counts, badge, calls>>
         ELSE LET lastViews == Fields(DocData(views[loc[c].user.uid]))
                  pending == {col \in Collections : ~Absent(lastViews[col])}
                  cnt == [col \in Collections |->
                             IF Absent(lastViews[col]) THEN 0 ELSE NotCalled]
              IN /\ counts' = [counts EXCEPT ![c] = cnt]
                 /\ UNCHANGED failed
                 /\ IF pending = {}
                    THEN /\ badge' = [badge EXCEPT ![c] = ShowCounts(@, cnt)]
                         /\ LeaveCounts(c)
                         /\ UNCHANGED calls
                    ELSE /\ pc' = [pc EXCEPT ![c] = "counting"]
                         /\ loc' = [loc EXCEPT ![c] =
                                [op |-> loc[c].op, page |-> loc[c].page, user |-> loc[c].user,
                                 lastViews |-> lastViews, pending |-> pending]]
                         /\ calls' = [calls EXCEPT ![c] = @ \cup {"getDocs:items"}]
                         /\ UNCHANGED <<badge, result>>
    /\ UNCHANGED <<backend, form, session, redirect, currentUserData, left, replaced>>

\* getNewItemsCount(col, 'createdAt', lastViews[col]): the query answers; the
\* last of the Promise.all answers lets loadNotificationCounts update the badges
GetNewItemsCount(c, col) ==
    /\ pc[c] = "counting"
    /\ col \in loc[c].pending
    /\ \E ok \in BOOLEAN :
         LET n == IF ok THEN QuerySize(col, loc[c].lastViews[col]) ELSE CountOnError
             cnt == [counts[c] EXCEPT ![col] = n]
             rest == loc[c].pending \ {col}
         IN /\ counts' = [counts EXCEPT ![c] = cnt]
            /\ failed' = [failed EXCEPT ![c] = IF ok THEN @ ELSE @ \cup {col}]
            /\ IF rest = {}
               THEN /\ badge' = [badge EXCEPT ![c] = ShowCounts(@, cnt)]
                    /\ LeaveCounts(c)
               ELSE /\ loc' = [loc EXCEPT ![c].pending = rest]
                    /\ UNCHANGED <<pc, badge, result>>
    /\ UNCHANGED <<backend, form, session, redirect, currentUserData, calls, left, replaced>>

\* markPageAsViewed(user.uid, currentPage): the getDoc answers
MarkRead(c) ==
    /\ pc[c] = "markRead"
    /\ \E ok \in BOOLEAN :
         IF ok
         THEN /\ pc' = [pc EXCEPT ![c] = "markWrite"]
              /\ loc' = [loc EXCEPT ![c] =
                     [op |-> loc[c].op, page |-> loc[c].page, user |-> loc[c].user,
                      currentData |-> DocData(views[loc[c].user.uid])]]
              /\ UNCHANGED <<failed, result>>
         ELSE /\ failed' = [failed EXCEPT ![c] = @ \cup {"markRead"}]
              /\ pc' = [pc EXCEPT ![c] = "idle"]
              /\ loc' = [loc EXCEPT ![c] = NoLoc]
              /\ result' = [result EXCEPT ![c] = Returned(loc[c])]
    /\ calls' = [calls EXCEPT ![c] = @ \cup {"getDoc:views"}]
    /\ UNCHANGED <<backend, form, session, redirect, currentUserData, badge, counts, left, replaced>>

\* markPageAsViewed: the setDoc answers, then updateBadge(page, 0)
MarkWrite(c) ==
    /\ pc[c] = "markWrite"
    /\ \E ok \in BOOLEAN :
         IF ok
         THEN /\ views' = [views EXCEPT ![loc[c].user.uid] =
                      SetDocMerge(@, ViewPayload(loc[c].currentData, loc[c].page, now))]
              /\ badge' = [badge EXCEPT ![c][loc[c].page] = UpdateBadge(@, 0)]
              /\ replaced' = [replaced EXCEPT ![c] =
                     [old |-> Field(DocData(views[loc[c].user.uid]), loc[c].page),
                      size |-> Len(items[loc[c].page])]]
              /\ UNCHANGED failed
         ELSE /\ failed' = [failed EXCEPT ![c] = @ \cup {"markWrite"}]
              /\ UNCHANGED <<views, badge, replaced>>
    /\ pc' = [pc EXCEPT ![c] = "idle"]
    /\ loc' = [loc EXCEPT ![c] = NoLoc]
    /\ result' = [result EXCEPT ![c] = Returned(loc[c])]
    /\ calls' = [calls EXCEPT ![c] = @ \cup {"setDoc:views"}]
    /\ UNCHANGED <<users, idp, items, now, form, session, redirect, currentUserData, counts, left>>

\* getNewItemIds(userId, collectionName)
GetNewItemIds(c, userId, col) ==
    /\ Begin(c)
    /\ userId # NoUser
    /\ result' = [result EXCEPT ![c] = NoResult]
    /\ pc' = [pc EXCEPT ![c] = "idsRead"]
    /\ loc' = [loc EXCEPT ![c] = [op |-> "getNewItemIds", uid |-> userId, col |-> col]]
    /\ UNCHANGED <<backend, form, session, redirect, currentUserData, badge, counts>>

\* getNewItemIds: the view-state getDoc answers
IdsRead(c) ==
    /\ pc[c] = "idsRead"
    /\ \E ok \in BOOLEAN :
         LET lastViewed == Field(DocData(views[loc[c].uid]), loc[c].col) IN
         IF ok /\ ~Absent(lastViewed)
         THEN /\ pc' = [pc EXCEPT ![c] = "idsQuery"]
              /\ loc' = [loc EXCEPT ![c] = [op |-> loc[c].op, uid |-> loc[c].uid,
                                            col |-> loc[c].col,
                                            lastViewed |-> lastViewed]]
              /\ UNCHANGED <<result, failed>>
         ELSE /\ pc' = [pc EXCEPT ![c] = "idle"]
              /\ loc' = [loc EXCEPT ![c] = NoLoc]
              /\ result' = [result EXCEPT ![c] =
                     [kind |-> "value", op |-> "getNewItemIds", ids |-> {}]]
              /\ failed' = [failed EXCEPT ![c] = IF ok THEN @ ELSE @ \cup {"views"}]
    /\ calls' = [calls EXCEPT ![c] = @ \cup {"getDoc:views"}]
    /\ UNCHANGED <<backend, form, session, redirect, currentUserData, badge, counts, left, replaced>>

\* getNewItemIds: the query answers
IdsQuery(c) ==
    /\ pc[c] = "idsQuery"
    /\ \E ok \in BOOLEAN :
         /\ result' = [result EXCEPT ![c] =
                [kind |-> "value", op |-> "getNewItemIds",
                 ids |-> IF ok THEN QueryNewer(loc[c].col, loc[c].lastViewed) ELSE {}]]
         /\ failed' = [failed EXCEPT ![c] = IF ok THEN @ ELSE @ \cup {loc[c].col}]
    /\ pc' = [pc EXCEPT ![c] = "idle"]
    /\ loc' = [loc EXCEPT ![c] = NoLoc]
    /\ calls' = [calls EXCEPT ![c] = @ \cup {"getDocs:items"}]
    /\ UNCHANGED <<backend, form, session, redirect, currentUserData, badge, counts, left, replaced>>

\* ----------------------------------------------------------- environment
TotalItems == Len(items["products"]) + Len(items["inbound"]) + Len(items["outbound"])

\* another part of the dashboard adds a document with createdAt: serverTimestamp()
CreateItem(col) ==
    /\ TotalItems < MaxItems
    /\ items' = [items EXCEPT ![col] = Append(@, now)]
    /\ UNCHANGED <<users, idp, views, now, form, session, pc, loc, result, redirect,
                   currentUserData, badge, counts, failed, calls, left, replaced>>

\* server time passes
Tick ==
    /\ now < MaxTime
    /\ now' = now + 1
    /\ UNCHANGED <<users, idp, views, items, form, session, pc, loc, result, redirect,
                   currentUserData, badge, counts, failed, calls, left, replaced>>

\* ------------------------------------------------- notification counter
ClientInit ==
    /\ pc = [c \in Clients |-> "idle"]
    /\ loc = [c \in Clients |-> NoLoc]
    /\ result = [c \in Clients |-> NoResult]
    /\ redirect = [c \in Clients |-> NoUrl]
    /\ badge = [c \in Clients |-> [col \in Collections |-> InitialBadge]]
    /\ counts = [c \in Clients |-> [col \in Collections |-> NotCalled]]
    /\ failed = [c \in Clients |-> {}]
    /\ calls = [c \in Clients |-> {}]
    /\ form = [c \in Clients |-> EmptyForm]
    /\ replaced = [c \in Clients |-> NoReplaced]

\* a bootstrapped store: uid 1 is an administrator, uid 2 an identity whose
\* profile record was deleted
StoreInit ==
    /\ users = [u \in Uids |->
                  IF u = 1 THEN Profile("amy", "a@x", "admin", "Amy", 1, System)
                  ELSE NoDoc]
    /\ idp = [u \in Uids |->
                  IF u = 1 THEN Identity("a@x", "secret1")
                  ELSE IF u = 2 THEN Identity("b@x", "secret2") ELSE NoDoc]
    /\ views = [u \in Uids |-> NoViews]
    /\ items = [col \in Collections |-> <<>>]
    /\ now = 1
    /\ currentUserData = [c \in Clients |-> NoData]
    /\ ClientInit

\* one client, signed out or signed in, opens pages
PageInit ==
    /\ StoreInit
    /\ session \in [Clients -> {NoUser, 1, 2}]
    /\ session["tab2"] = NoUser
    /\ left = MaxCalls

\* what a client with a page open may do
PageStep(c) ==
    \/ \E page \in Collections \cup {NoPage} : InitPageAuth(c, page)
    \/ RequireAuthCallback(c)
    \/ RequireAuthResolve(c)
    \/ RefreshNotifications(c)
    \/ LoadViews(c)
    \/ \E col \in Collections : GetNewItemsCount(c, col)
    \/ MarkRead(c)
    \/ MarkWrite(c)
    \/ \E col \in Collections : GetNewItemIds(c, currentUserData[c].uid, col)
    \/ IdsRead(c)
    \/ IdsQuery(c)

\* one client loading pages while items are created and time passes
PageNext ==
    \/ PageStep("tab1")
    \/ \E col \in Collections : CreateItem(col)
    \/ Tick

SpecPage == PageInit /\ [][PageNext]_vars

\* the same user with the dashboard open in two clients
TabsInit ==
    /\ StoreInit
    /\ session = [c \in Clients |-> 1]
    /\ left = MaxTabCalls

TabsStep(c) ==
    \/ \E page \in Collections : InitPageAuth(c, page)
    \/ RequireAuthCallback(c)
    \/ RequireAuthResolve(c)
    \/ LoadViews(c)
    \/ \E col \in Collections : GetNewItemsCount(c, col)
    \/ MarkRead(c)
    \/ MarkWrite(c)

TabsNext ==
    \/ \E c \in Clients : TabsStep(c)
    \/ Tick

SpecTabs == TabsInit /\ [][TabsNext]_vars

\* ------------------------------------------------------------- auth.js
\* String.prototype.toLowerCase on the strings the model draws
Lower(str) ==
    CASE str = "Amy" -> "amy"
      [] str = "A@x" -> "a@x"
      [] str = "Cy" -> "cy"
      [] OTHER -> str

\* String.prototype.trim on the strings the model draws
Trim(str) == IF str = " " THEN "" ELSE str

\* String.prototype.length of the passwords the model draws
Length(str) ==
    CASE str = "" -> 0
      [] str = "short" -> 5
      [] OTHER -> 7

Err(code, message) == [code |-> code, message |-> message]
NetworkError == Err("unavailable", "Failed to get document because the client is offline.")
ProviderError(code) == Err(code, "Firebase: Error")

Failure(op, message) == [kind |-> "value", op |-> op, success |-> FALSE, error |-> message]
Thrown(op, err) == [kind |-> "thrown", op |-> op, error |-> err.message]

page_vars == <<views, items, now, redirect, badge, counts>>

\* the running operation of client c returns res
Finish(c, res) ==
    /\ pc' = [pc EXCEPT ![c] = "idle"]
    /\ loc' = [loc EXCEPT ![c] = NoLoc]
    /\ result' = [result EXCEPT ![c] = res]

\* client c goes on to the next backend call of its operation
Goto(c, label, l) ==
    /\ pc' = [pc EXCEPT ![c] = label]
    /\ loc' = [loc EXCEPT ![c] = l]
    /\ UNCHANGED result

Called(c, name) == calls' = [calls EXCEPT ![c] = @ \cup {name}]
Failed(c, name) == failed' = [failed EXCEPT ![c] = @ \cup {name}]

\* query(usersRef, where('username', '==', username.toLowerCase()))
ByUsername(username) ==
    {u \in Uids : users[u].exists /\ users[u].username = Lower(username)}

\* the identity provider's account for an email and password, if any
Account(email, password) ==
    {u \in Uids : idp[u].exists /\ idp[u].email = Lower(email)
                    /\ idp[u].password = password}

\* the identity provider knows the email under another account than `self`
EmailInUse(email, self) ==
    \E u \in Uids \ {self} : idp[u].exists /\ idp[u].email = Lower(email)

\* the uid the identity provider gives the next account
FreshUids == {u \in Uids : ~idp[u].exists}

\* the error createUserWithEmailAndPassword answers with, "" for none
CreateError(email, password) ==
    IF EmailInUse(email, NoUser) THEN "auth/email-already-in-use"
    ELSE IF Length(password) < MinPasswordLen THEN "auth/weak-password"
    ELSE ""

\* loginWithUsername: catch (error)
LoginCaught(err) ==
    Failure("loginWithUsername",
            IF err.code = "auth/too-many-requests"
            THEN "Too many failed attempts. Please try again later."
            ELSE "Invalid username or password")

\* loginWithUsername(username, password)
LoginWithUsername(c, username, password) ==
    /\ Begin(c)
    /\ Goto(c, "loginQuery", [op |-> "loginWithUsername", username |-> username,
                              password |-> password])
    /\ UNCHANGED <<users, idp, session, page_vars, currentUserData, form>>

\* loginWithUsername: the username query answers
LoginQuery(c) ==
    /\ pc[c] = "loginQuery"
    /\ Called(c, "getDocs:users")
    /\ \E ok \in BOOLEAN :
         IF ~ok
         THEN Failed(c, "getDocs:users") /\ Finish(c, LoginCaught(NetworkError))
         ELSE /\ UNCHANGED failed
              /\ IF ByUsername(loc[c].username) = {}
                 THEN Finish(c, LoginCaught(Err("", "Invalid username or password")))
                 ELSE \E u \in ByUsername(loc[c].username) :
                         Goto(c, "loginSignIn",
                              [op |-> loc[c].op, password |-> loc[c].password,
                               userData |-> users[u]])
    /\ UNCHANGED <<users, idp, session, page_vars, currentUserData, form, left, replaced>>

\* loginWithUsername: signInWithEmailAndPassword answers
LoginSignIn(c) ==
    /\ pc[c] = "loginSignIn"
    /\ Called(c, "signIn")
    /\ \E out \in {"", "auth/network-request-failed", "auth/too-many-requests"} :
         LET who == Account(loc[c].userData.email, loc[c].password)
             d == loc[c].userData
         IN IF out = "" /\ who # {}
            THEN /\ session' = [session EXCEPT ![c] = CHOOSE u \in who : TRUE]
                 /\ Finish(c, [kind |-> "value", op |-> loc[c].op, success |-> TRUE,
                               user |-> [uid |-> CHOOSE u \in who : TRUE,
                                         email |-> d.email, username |-> d.username,
                                         displayName |-> d.displayName, role |-> d.role]])
                 /\ UNCHANGED failed
            ELSE /\ Failed(c, "signIn")
                 /\ Finish(c, LoginCaught(ProviderError(
                        IF out = "" THEN "auth/invalid-credential" ELSE out)))
                 /\ UNCHANGED session
    /\ UNCHANGED <<users, idp, page_vars, currentUserData, form, left, replaced>>

\* logout: catch (error)
LogoutCaught(err) == Failure("logout", err.message)

\* logout()
Logout(c) ==
    /\ Begin(c)
    /\ Goto(c, "signOut", [op |-> "logout"])
    /\ UNCHANGED <<users, idp, session, page_vars, currentUserData, form>>

\* logout: signOut answers
SignOut(c) ==
    /\ pc[c] = "signOut"
    /\ Called(c, "signOut")
    /\ \E ok \in BOOLEAN :
         IF ok
         THEN /\ session' = [session EXCEPT ![c] = NoUser]
              /\ Finish(c, [kind |-> "value", op |-> "logout", success |-> TRUE])
              /\ UNCHANGED failed
         ELSE /\ Failed(c, "signOut")
              /\ Finish(c, LogoutCaught(ProviderError("auth/network-request-failed")))
              /\ UNCHANGED session
    /\ UNCHANGED <<users, idp, page_vars, currentUserData, form, left, replaced>>

\* mutant: any profile passes the role check
IsAdmin_AnyProfile(adminData) == ~IsNull(adminData)

\* !(!adminData || adminData.role !== 'admin')
IsAdmin(adminData) == ~IsNull(adminData) /\ adminData.role = "admin"

\* mutant: the error leaves createUser
CreateUserCaught_Rethrow(err) == Thrown("createUser", err)

\* createUser: catch (error)
CreateUserCaught(err) ==
    Failure("createUser",
            CASE err.code = "auth/email-already-in-use" -> "Email is already in use"
              [] err.code = "auth/invalid-email" -> "Invalid email address"
              [] err.code = "auth/weak-password" -> "Password should be at least 6 characters"
              [] OTHER -> err.message)

\* createUser(username, email, password, role, displayName) up to isUsernameTaken's query
CreateUser(c, username, email, password, role, displayName) ==
    /\ Begin(c)
    /\ IF "" \in {username, email, password, role, displayName}
       THEN Finish(c, CreateUserCaught(Err("", "All fields are required")))
       ELSE Goto(c, "createTaken",
                 [op |-> "createUser", username |-> username, email |-> email,
                  password |-> password, role |-> role, displayName |-> displayName])
    /\ UNCHANGED <<users, idp, session, page_vars, currentUserData, form>>

\* createUser: isUsernameTaken answers; auth.currentUser is read; getCurrentUserData
\* issues its getDoc
CreateTaken(c) ==
    /\ pc[c] = "createTaken"
    /\ Called(c, "getDocs:users")
    /\ \E ok \in BOOLEAN :
         IF ~ok
         THEN Failed(c, "getDocs:users") /\ Finish(c, CreateUserCaught(NetworkError))
         ELSE /\ UNCHANGED failed
              /\ IF ByUsername(loc[c].username) # {}
                 THEN Finish(c, CreateUserCaught(Err("", "Username is already taken")))
                 ELSE IF session[c] = NoUser
                 THEN Finish(c, CreateUserCaught(
                          Err("", "You must be logged in as admin to create users")))
                 ELSE Goto(c, "createAdmin", loc[c] @@ [adminUid |-> session[c]])
    /\ UNCHANGED <<users, idp, session, page_vars, currentUserData, form, left, replaced>>

\* createUser: getCurrentUserData answers
CreateAdmin(c) ==
    /\ pc[c] = "createAdmin"
    /\ Called(c, "getDoc:users")
    /\ \E ok \in BOOLEAN :
         /\ IF ok THEN UNCHANGED failed ELSE Failed(c, "getDoc:users")
         /\ IF IsAdmin(GetCurrentUserData(loc[c].adminUid, ok))
            THEN Goto(c, "createIdentity", loc[c])
            ELSE Finish(c, CreateUserCaught(Err("", "Only admins can create new users")))
    /\ UNCHANGED <<users, idp, session, page_vars, currentUserData, form, left, replaced>>

\* createUserWithEmailAndPassword: the error code it rejects with, "" if none
IdentityOutcome(c, out) ==
    LET code == IF out = "" THEN CreateError(loc[c].email, loc[c].password) ELSE out
    IN IF code = "" /\ FreshUids = {} THEN "auth/too-many-requests" ELSE code

\* createUserWithEmailAndPassword answers: the new account is signed in
NewIdentity(c, next) ==
    \E u \in FreshUids :
        /\ \A v \in FreshUids : u <= v
        /\ idp' = [idp EXCEPT ![u] = Identity(Lower(loc[c].email), loc[c].password)]
        /\ session' = [session EXCEPT ![c] = u]
        /\ Goto(c, next, loc[c] @@ [newUid |-> u])
        /\ UNCHANGED failed

\* createUser: createUserWithEmailAndPassword answers
CreateUserIdentity(c) ==
    /\ pc[c] = "createIdentity"
    /\ Called(c, "createUserWithEmailAndPassword")
    /\ \E out \in {"", "auth/network-request-failed"} :
         IF IdentityOutcome(c, out) = ""
         THEN NewIdentity(c, "createProfile")
         ELSE /\ Failed(c, "createUserWithEmailAndPassword")
              /\ Finish(c, CreateUserCaught(ProviderError(IdentityOutcome(c, out))))
              /\ UNCHANGED <<idp, session>>
    /\ UNCHANGED <<users, page_vars, currentUserData, form, left, replaced>>

\* createUser: setDoc(doc(db, 'users', newUser.uid), ...) answers
CreateProfile(c) ==
    /\ pc[c] = "createProfile"
    /\ Called(c, "setDoc:users")
    /\ \E ok \in BOOLEAN :
         IF ok
         THEN /\ users' = [users EXCEPT ![loc[c].newUid] =
                      Profile(Lower(loc[c].username), Lower(loc[c].email), loc[c].role,
                              loc[c].displayName, now, loc[c].adminUid)]
              /\ Finish(c, [kind |-> "value", op |-> "createUser", success |-> TRUE,
                            user |-> [uid |-> loc[c].newUid,
                                      username |-> Lower(loc[c].username),
                                      email |-> Lower(loc[c].email), role |-> loc[c].role,
                                      displayName |-> loc[c].displayName]])
              /\ UNCHANGED failed
         ELSE /\ Failed(c, "setDoc:users")
              /\ Finish(c, CreateUserCaught(NetworkError))
              /\ UNCHANGED users
    /\ UNCHANGED <<idp, session, page_vars, currentUserData, form, left, replaced>>

\* getAllUsers: catch (error)
GetAllUsersCaught(err) == Failure("getAllUsers", err.message)

\* getAllUsers() up to getCurrentUserData's getDoc (null at once when signed out)
GetAllUsers(c) ==
    /\ Begin(c)
    /\ IF session[c] = NoUser
       THEN Finish(c, GetAllUsersCaught(Err("", "Only admins can view all users")))
       ELSE Goto(c, "listAdmin", [op |-> "getAllUsers", adminUid |-> session[c]])
    /\ UNCHANGED <<users, idp, session, page_vars, currentUserData, form>>

\* getAllUsers: getCurrentUserData answers
ListAdmin(c) ==
    /\ pc[c] = "listAdmin"
    /\ Called(c, "getDoc:users")
    /\ \E ok \in BOOLEAN :
         /\ IF ok THEN UNCHANGED failed ELSE Failed(c, "getDoc:users")
         /\ IF IsAdmin(GetCurrentUserData(loc[c].adminUid, ok))
            THEN Goto(c, "listUsers", loc[c])
            ELSE Finish(c, GetAllUsersCaught(Err("", "Only admins can view all users")))
    /\ UNCHANGED <<users, idp, session, page_vars, currentUserData, form, left, replaced>>

\* getAllUsers: getDocs(usersRef) answers
ListUsers(c) ==
    /\ pc[c] = "listUsers"
    /\ Called(c, "getDocs:allUsers")
    /\ \E ok \in BOOLEAN :
         IF ok
         THEN /\ Finish(c, [kind |-> "value", op |-> "getAllUsers", success |-> TRUE,
                            users |-> {UserData(u, users[u]) :
                                          u \in {v \in Uids : users[v].exists}}])
              /\ UNCHANGED failed
         ELSE Failed(c, "getDocs:allUsers") /\ Finish(c, GetAllUsersCaught(NetworkError))
    /\ UNCHANGED <<users, idp, session, page_vars, currentUserData, form, left, replaced>>

\* deleteUserData: catch (error)
DeleteCaught(err) == Failure("deleteUserData", err.message)

\* deleteUserData(uid) up to getCurrentUserData's getDoc (null at once when signed out)
DeleteUserData(c, uid) ==
    /\ Begin(c)
    /\ IF session[c] = NoUser
       THEN Finish(c, DeleteCaught(Err("", "Only admins can delete users")))
       ELSE Goto(c, "deleteAdmin", [op |-> "deleteUserData", uid |-> uid,
                                    adminUid |-> session[c]])
    /\ UNCHANGED <<users, idp, session, page_vars, currentUserData, form>>

\* mutant: the caller is never taken for the target
IsSelf_Never(uid, currentUid) == FALSE

\* deleteUserData: uid === auth.currentUser.uid
IsSelf(uid, currentUid) == uid = currentUid

\* mutant: the whole collection goes
DeleteDocument_Collection(store, id) == [u \in DOMAIN store |-> NoDoc]

\* deleteDoc(doc(db, 'users', uid)): the collection without the record of id
DeleteDocument(store, id) == [store EXCEPT ![id] = NoDoc]

\* deleteUserData: getCurrentUserData answers; uid === auth.currentUser.uid
DeleteAdmin(c) ==
    /\ pc[c] = "deleteAdmin"
    /\ Called(c, "getDoc:users")
    /\ \E ok \in BOOLEAN :
         /\ IF ok THEN UNCHANGED failed ELSE Failed(c, "getDoc:users")
         /\ IF ~IsAdmin(GetCurrentUserData(loc[c].adminUid, ok))
            THEN Finish(c, DeleteCaught(Err("", "Only admins can delete users")))
            ELSE IF session[c] = NoUser
            THEN Finish(c, DeleteCaught(Err("", "Cannot read properties of null")))
            ELSE IF IsSelf(loc[c].uid, session[c])
            THEN Finish(c, DeleteCaught(Err("", "You cannot delete your own account")))
            ELSE Goto(c, "deleteDoc", loc[c])
    /\ UNCHANGED <<users, idp, session, page_vars, currentUserData, form, left, replaced>>

\* deleteUserData: deleteDoc(doc(db, 'users', uid)) answers
DeleteDoc(c) ==
    /\ pc[c] = "deleteDoc"
    /\ Called(c, "deleteDoc:users")
    /\ \E ok \in BOOLEAN :
         IF ok
         THEN /\ users' = DeleteDocument(users, loc[c].uid)
              /\ Finish(c, [kind |-> "value", op |-> "deleteUserData", success |-> TRUE])
              /\ UNCHANGED failed
         ELSE /\ Failed(c, "deleteDoc:users")
              /\ Finish(c, DeleteCaught(NetworkError))
              /\ UNCHANGED users
    /\ UNCHANGED <<idp, session, page_vars, currentUserData, form, left, replaced>>

\* initializeFirstAdmin: catch (error)
InitAdminCaught(err) == Failure("initializeFirstAdmin", err.message)

\* initializeFirstAdmin(username, email, password, displayName)
InitializeFirstAdmin(c, username, email, password, displayName) ==
    /\ Begin(c)
    /\ Goto(c, "bootList",
            [op |-> "initializeFirstAdmin", username |-> username, email |-> email,
             password |-> password, displayName |-> displayName])
    /\ UNCHANGED <<users, idp, session, page_vars, currentUserData, form>>

\* initializeFirstAdmin: getDocs(usersRef) answers
BootList(c) ==
    /\ pc[c] = "bootList"
    /\ Called(c, "getDocs:allUsers")
    /\ \E ok \in BOOLEAN :
         IF ~ok
         THEN Failed(c, "getDocs:allUsers") /\ Finish(c, InitAdminCaught(NetworkError))
         ELSE /\ UNCHANGED failed
              /\ IF \E u \in Uids : users[u].exists
                 THEN Finish(c, InitAdminCaught(
                          Err("", "Users already exist. Cannot initialize first admin.")))
                 ELSE Goto(c, "bootIdentity", loc[c])
    /\ UNCHANGED <<users, idp, session, page_vars, currentUserData, form, left, replaced>>

\* initializeFirstAdmin: createUserWithEmailAndPassword answers
BootIdentity(c) ==
    /\ pc[c] = "bootIdentity"
    /\ Called(c, "createUserWithEmailAndPassword")
    /\ \E out \in {"", "auth/network-request-failed"} :
         IF IdentityOutcome(c, out) = ""
         THEN NewIdentity(c, "bootProfile")
         ELSE /\ Failed(c, "createUserWithEmailAndPassword")
              /\ Finish(c, InitAdminCaught(ProviderError(IdentityOutcome(c, out))))
              /\ UNCHANGED <<idp, session>>
    /\ UNCHANGED <<users, page_vars, currentUserData, form, left, replaced>>

\* initializeFirstAdmin: setDoc(doc(db, 'users', newUser.uid), ...) answers
BootProfile(c) ==
    /\ pc[c] = "bootProfile"
    /\ Called(c, "setDoc:users")
    /\ \E ok \in BOOLEAN :
         IF ok
         THEN /\ users' = [users EXCEPT ![loc[c].newUid] =
                      Profile(Lower(loc[c].username), Lower(loc[c].email), "admin",
                              loc[c].displayName, now, System)]
              /\ Finish(c, [kind |-> "value", op |-> "initializeFirstAdmin",
                            success |-> TRUE,
                            message |-> "First admin created successfully"])
              /\ UNCHANGED failed
         ELSE /\ Failed(c, "setDoc:users")
              /\ Finish(c, InitAdminCaught(NetworkError))
              /\ UNCHANGED users
    /\ UNCHANGED <<idp, session, page_vars, currentUserData, form, left, replaced>>

\* ---------------------------------------------------- saveProfile (page-auth.js)
\* mutant: the comparison is case-sensitive
EmailChanged_CaseSensitive(email, cud) == email # cud.email

\* email.toLowerCase() !== currentUserData.email.toLowerCase()
EmailChanged(email, cud) == Lower(email) # Lower(cud.email)

\* newPassword.length > 0
PasswordChanged(f) == Length(f.newPassword) > 0

\* mutant: the confirmation is not compared
ValidationError_NoConfirm(f, cud) ==
    IF Trim(f.displayName) = "" THEN "Display name is required"
    ELSE IF Trim(f.email) = "" THEN "Email is required"
    ELSE IF (EmailChanged(Trim(f.email), cud) \/ PasswordChanged(f)) /\ f.currentPassword = ""
    THEN "Current password is required to change email or password"
    ELSE IF PasswordChanged(f) /\ Length(f.newPassword) < MinPasswordLen
    THEN "New password must be at least 6 characters"
    ELSE ""

\* saveProfile's validation: the message shown, "" when the form passes
ValidationError(f, cud) ==
    IF Trim(f.displayName) = "" THEN "Display name is required"
    ELSE IF Trim(f.email) = "" THEN "Email is required"
    ELSE IF (EmailChanged(Trim(f.email), cud) \/ PasswordChanged(f)) /\ f.currentPassword = ""
    THEN "Current password is required to change email or password"
    ELSE IF PasswordChanged(f) /\ f.newPassword # f.confirmPassword
    THEN "New passwords do not match"
    ELSE IF PasswordChanged(f) /\ Length(f.newPassword) < MinPasswordLen
    THEN "New password must be at least 6 characters"
    ELSE ""

\* what saveProfile leaves on the form: the error or the success alert
Shown(success, message) ==
    [kind |-> "shown", op |-> "saveProfile", success |-> success, error |-> message]

\* saveProfile: catch (err)
SaveCaught(err) ==
    Shown(FALSE,
          CASE err.code = "auth/wrong-password" -> "Current password is incorrect"
            [] err.code = "auth/email-already-in-use" ->
                  "Email is already in use by another account"
            [] err.code = "auth/invalid-email" -> "Invalid email address"
            [] err.code = "auth/requires-recent-login" ->
                  "Please log out and log back in to change your email or password"
            [] OTHER -> "Failed to update profile")

\* where saveProfile goes after the step `at`
SaveNext(at, l) ==
    IF at = "start" /\ (l.emailChanged \/ l.passwordChanged) THEN "reauthenticate"
    ELSE IF at \in {"start", "reauthenticate"} /\ l.emailChanged THEN "updateEmail"
    ELSE IF at \in {"start", "reauthenticate", "updateEmail"} /\ l.passwordChanged
    THEN "updatePassword"
    ELSE "updateDoc"

\* window.saveProfile() with the form filled as f, up to its first backend call
SaveProfile(c, f) ==
    /\ Begin(c)
    /\ ~IsNull(currentUserData[c])
    /\ form' = [form EXCEPT ![c] = f]
    /\ IF ValidationError(f, currentUserData[c]) # ""
       THEN Finish(c, Shown(FALSE, ValidationError(f, currentUserData[c])))
       ELSE LET l == [op |-> "saveProfile", displayName |-> Trim(f.displayName),
                      email |-> Trim(f.email), currentPassword |-> f.currentPassword,
                      newPassword |-> f.newPassword,
                      emailChanged |-> EmailChanged(Trim(f.email), currentUserData[c]),
                      passwordChanged |-> PasswordChanged(f),
                      user |-> session[c]]
            IN Goto(c, SaveNext("start", l), l)
    /\ UNCHANGED <<users, idp, session, page_vars, currentUserData>>

\* saveProfile: reauthenticateWithCredential(user, credential) answers
Reauthenticate(c) ==
    /\ pc[c] = "reauthenticate"
    /\ Called(c, "reauthenticate")
    /\ \E out \in {"", "auth/network-request-failed"} :
         IF out = "" /\ loc[c].user \in Account(currentUserData[c].email, loc[c].currentPassword)
         THEN Goto(c, SaveNext("reauthenticate", loc[c]), loc[c]) /\ UNCHANGED failed
         ELSE /\ Failed(c, "reauthenticate")
              /\ Finish(c, SaveCaught(ProviderError(
                     IF out = "" THEN "auth/wrong-password" ELSE out)))
    /\ UNCHANGED <<users, idp, session, page_vars, currentUserData, form, left, replaced>>

\* saveProfile: updateEmail(user, email) answers
UpdateEmail(c) ==
    /\ pc[c] = "updateEmail"
    /\ Called(c, "updateEmail")
    /\ \E out \in {"", "auth/network-request-failed", "auth/requires-recent-login"} :
         LET code == IF out # "" THEN out
                     ELSE IF loc[c].user = NoUser THEN "auth/internal-error"
                     ELSE IF EmailInUse(loc[c].email, loc[c].user)
                     THEN "auth/email-already-in-use" ELSE ""
         IN IF code = ""
            THEN /\ idp' = [idp EXCEPT ![loc[c].user].email = Lower(loc[c].email)]
                 /\ Goto(c, SaveNext("updateEmail", loc[c]), loc[c])
                 /\ UNCHANGED failed
            ELSE /\ Failed(c, "updateEmail")
                 /\ Finish(c, SaveCaught(ProviderError(code)))
                 /\ UNCHANGED idp
    /\ UNCHANGED <<users, session, page_vars, currentUserData, form, left, replaced>>

\* saveProfile: updatePassword(user, newPassword) answers
UpdatePassword(c) ==
    /\ pc[c] = "updatePassword"
    /\ Called(c, "updatePassword")
    /\ \E out \in {"", "auth/network-request-failed"} :
         IF out = "" /\ loc[c].user # NoUser
         THEN /\ idp' = [idp EXCEPT ![loc[c].user].password = loc[c].newPassword]
              /\ Goto(c, "updateDoc", loc[c])
              /\ UNCHANGED failed
         ELSE /\ Failed(c, "updatePassword")
              /\ Finish(c, SaveCaught(ProviderError(
                     IF out = "" THEN "auth/internal-error" ELSE out)))
              /\ UNCHANGED idp
    /\ UNCHANGED <<users, session, page_vars, currentUserData, form, left, replaced>>

\* saveProfile: updateDoc(doc(db, 'users', currentUserData.uid), ...) answers (it
\* fails on a missing document); the local user data and the form follow
UpdateDoc(c) ==
    /\ pc[c] = "updateDoc"
    /\ Called(c, "updateDoc:users")
    /\ \E ok \in BOOLEAN :
         LET uid == currentUserData[c].uid IN
         IF ok /\ users[uid].exists
         THEN /\ users' = [users EXCEPT ![uid].displayName = loc[c].displayName,
                                        ![uid].email = Lower(loc[c].email)]
              /\ currentUserData' = [currentUserData EXCEPT
                                        ![c].displayName = loc[c].displayName,
                                        ![c].email = Lower(loc[c].email)]
              /\ form' = [form EXCEPT ![c].currentPassword = "", ![c].newPassword = "",
                                      ![c].confirmPassword = ""]
              /\ Finish(c, Shown(TRUE, ""))
              /\ UNCHANGED failed
         ELSE /\ Failed(c, "updateDoc:users")
              /\ Finish(c, SaveCaught(IF ok THEN Err("not-found", "No document to update")
                                      ELSE NetworkError))
              /\ UNCHANGED <<users, currentUserData, form>>
    /\ UNCHANGED <<idp, session, page_vars, left, replaced>>

\* ------------------------------------------------------- the operations
Usernames == {"Amy", "bob", "cy"}
NewEmails == {"A@x", "c@x"}
Passwords == {"secret1", "secret2"}
NewPasswords == {"short", "secret3"}
Roles == {"admin", "staff"}
Forms ==
    [displayName : {"Ann"}, email : {"a@x", "A@x", "c@x"},
     currentPassword : {""} \cup Passwords, newPassword : {""} \cup NewPasswords,
     confirmPassword : {"", "secret3"}]
    \cup [displayName : {" ", "Ann"}, email : {"", "b@x"}, currentPassword : {"secret1"},
          newPassword : {""}, confirmPassword : {""}]

\* a fresh backend, or one with an administrator (uid 1) and a staff member
\* (uid 2) who has opened the products page; the client is signed out or signed in, with or without a dashboard
\* page open
AuthInit ==
    /\ \E fresh \in BOOLEAN :
         /\ users = [u \in Uids |->
                IF fresh \/ u > 2 THEN NoDoc
                ELSE IF u = 1 THEN Profile("amy", "a@x", "admin", "Amy", 1, System)
                ELSE Profile("bob", "b@x", "staff", "Bob", 1, 1)]
         /\ idp = [u \in Uids |->
                IF fresh \/ u > 2 THEN NoDoc
                ELSE IF u = 1 THEN Identity("a@x", "secret1")
                ELSE Identity("b@x", "secret2")]
    /\ views = [u \in Uids |->
                IF u = 2 /\ users[u].exists
                THEN [exists |-> TRUE, data |-> [products |-> 1]] ELSE NoViews]
    /\ items = [col \in Collections |-> <<>>]
    /\ now = 1
    /\ ClientInit
    /\ session \in [Clients -> {NoUser} \cup {u \in Uids : idp[u].exists}]
    /\ session["tab2"] = NoUser
    /\ left = MaxOps
    /\ \E open \in BOOLEAN :
         currentUserData = [c \in Clients |->
             IF open /\ session[c] # NoUser
             THEN UserData(session[c], users[session[c]]) ELSE NoData]

AuthStep(c) ==
    \/ \E u \in Usernames, p \in Passwords : LoginWithUsername(c, u, p)
    \/ LoginQuery(c)
    \/ LoginSignIn(c)
    \/ Logout(c)
    \/ SignOut(c)
    \/ \E u \in {"Amy", "cy"}, e \in NewEmails, p \in NewPasswords, r \in Roles :
          CreateUser(c, u, e, p, r, "Cy")
    \/ CreateUser(c, "", "c@x", "secret3", "staff", "Cy")
    \/ CreateTaken(c)
    \/ CreateAdmin(c)
    \/ CreateUserIdentity(c)
    \/ CreateProfile(c)
    \/ GetAllUsers(c)
    \/ ListAdmin(c)
    \/ ListUsers(c)
    \/ \E u \in Uids : DeleteUserData(c, u)
    \/ DeleteAdmin(c)
    \/ DeleteDoc(c)
    \/ \E e \in NewEmails, p \in NewPasswords : InitializeFirstAdmin(c, "Amy", e, p, "Amy")
    \/ BootList(c)
    \/ BootIdentity(c)
    \/ BootProfile(c)
    \/ \E f \in Forms : SaveProfile(c, f)
    \/ Reauthenticate(c)
    \/ UpdateEmail(c)
    \/ UpdatePassword(c)
    \/ UpdateDoc(c)

Next == AuthStep("tab1")

Spec == AuthInit /\ [][Next]_vars

\* a fresh backend with nobody signed in, or one whose administrator (uid 1)
\* is signed in on two clients
AdminsInit ==
    /\ \E fresh \in BOOLEAN :
         /\ users = [u \in Uids |->
                IF fresh \/ u > 1 THEN NoDoc
                ELSE Profile("amy", "a@x", "admin", "Amy", 1, System)]
         /\ idp = [u \in Uids |->
                IF fresh \/ u > 1 THEN NoDoc ELSE Identity("a@x", "secret1")]
         /\ session = [c \in Clients |-> IF fresh THEN NoUser ELSE 1]
    /\ views = [u \in Uids |-> NoViews]
    /\ items = [col \in Collections |-> <<>>]
    /\ now = 1
    /\ currentUserData = [c \in Clients |-> NoData]
    /\ ClientInit
    /\ left = MaxAdminCalls

\* the user-creating operations of one client
AdminsStep(c) ==
    \/ \E u \in {"Cy", "dee"}, e \in {"c@x", "d@x"} :
          CreateUser(c, u, e, "secret3", "staff", "Cy")
    \/ CreateTaken(c)
    \/ CreateAdmin(c)
    \/ CreateUserIdentity(c)
    \/ CreateProfile(c)
    \/ \E e \in {"a@x", "c@x"} : InitializeFirstAdmin(c, "Amy", e, "secret1", "Amy")
    \/ BootList(c)
    \/ BootIdentity(c)
    \/ BootProfile(c)

AdminsNext == \E c \in Clients : AdminsStep(c)

\* two clients creating users at the same time
SpecAdmins == AdminsInit /\ [][AdminsNext]_vars

\* ------------------------------------------------------------ properties
\* getNewItemsCount(col, ...) of client c returns in this step
CountReturns(c, col) ==
    /\ pc[c] = "counting"
    /\ col \in loc[c].pending
    /\ counts'[c][col] # NotCalled

\* the items of col created strictly after t
StrictlyNewer(col, t) == {i \in 1..Len(items[col]) : t < items[col][i]}

\* C1 (as claimed): for every recorded last-viewed timestamp T, getNewItemsCount
\* returns exactly the number of items whose createdAt is strictly greater than T
C1_ExactCountAlways ==
    [][\A c \in Clients, col \in Collections :
         CountReturns(c, col) =>
            counts'[c][col] = Cardinality(StrictlyNewer(col, loc[c].lastViews[col]))]_vars

\* C1 (amended): getNewItemsCount returns the number of items created strictly
\* after T when its query succeeds and 0 when its query fails; never a negative
C1_ExactCountUnlessQueryFails ==
    [][\A c \in Clients, col \in Collections :
         CountReturns(c, col) =>
            /\ counts'[c][col] >= 0
            /\ counts'[c][col] =
                  IF col \in failed'[c] THEN 0
                  ELSE Cardinality(StrictlyNewer(col, loc[c].lastViews[col]))]_vars

\* C1 witness: a count of 1 over two items, the older one created at T itself
C1_Witness ==
    \E col \in Collections :
        /\ pc["tab1"] \in {"counting", "markRead"}
        /\ counts["tab1"][col] = 1
        /\ col \notin failed["tab1"]
        /\ Len(items[col]) = 2
        /\ views[session["tab1"]].exists
        /\ col \in DOMAIN views[session["tab1"]].data
        /\ items[col][1] = views[session["tab1"]].data[col]
        /\ items[col][2] > views[session["tab1"]].data[col]

\* the timestamp the store holds for user u and collection col, if any
Recorded(u, col) == views[u].exists /\ col \in DOMAIN views[u].data

\* C2: with no last-viewed timestamp recorded for a collection (no record, or
\* a record without the key) getNewItemsCount returns 0 without querying and
\* getNewItemIds returns the empty set, whatever the collection holds
C2_NeverViewedIsZero ==
    [][\A c \in Clients :
         /\ (pc[c] = "loadViews" /\ pc'[c] # "loadViews" /\ "views" \notin failed'[c]) =>
               \A col \in Collections :
                  ~Recorded(loc[c].user.uid, col) =>
                     /\ counts'[c][col] = 0
                     /\ pc'[c] = "counting" => col \notin loc'[c].pending
         /\ (pc[c] = "idsRead" /\ pc'[c] # "idsRead"
               /\ ~Recorded(loc[c].uid, loc[c].col)) =>
               /\ pc'[c] = "idle"
               /\ result'[c].op = "getNewItemIds"
               /\ result'[c].ids = {}]_vars

\* C2 witness: a count of 0 was returned for a collection that holds an item
\* and has no recorded timestamp, while another collection has one
C2_Witness ==
    \E col \in Collections :
        /\ counts["tab1"][col] = 0
        /\ Len(items[col]) > 0
        /\ ~Recorded(1, col)
        /\ views[1].exists
        /\ col \notin failed["tab1"]

\* markPageAsViewed of client c completes its write in this step
MarkWrites(c) ==
    /\ pc[c] = "markWrite"
    /\ pc'[c] = "idle"
    /\ "markWrite" \notin failed'[c]

\* C3 (as claimed): a markPageAsViewed write leaves every other collection's
\* timestamp as it was stored immediately before the write
C3_OtherTimestampsKept ==
    [][\A c \in Clients :
         MarkWrites(c) =>
            \A d \in Collections \ {loc[c].page} :
               Field(DocData(views'[loc[c].user.uid]), d)
                  = Field(DocData(views[loc[c].user.uid]), d)]_vars

\* markPageAsViewed of client c returns in this step
MarkReturns(c) == pc[c] \in {"markRead", "markWrite"} /\ pc'[c] = "idle"

\* the page's timestamp is the server time and its badge is hidden
MarkedNow(c) ==
    /\ views'[loc[c].user.uid].exists
    /\ Field(views'[loc[c].user.uid].data, loc[c].page) = now
    /\ badge'[c][loc[c].page].display = "none"

\* C4 (as claimed): whenever markPageAsViewed(user, c) returns, lastViewed[c] is
\* the server time of that write and the badge of c is hidden
C4_AlwaysMarked ==
    [][\A c \in Clients : MarkReturns(c) => MarkedNow(c)]_vars

\* C4 (amended): when both the read and the write of markPageAsViewed succeed
\* the write sets lastViewed[c] to the server time, creating the record if
\* needed, and hides the badge; when either fails the record and the badge
\* stay as they were; either way initPageAuth returns the user
C4_MarkedUnlessFailed ==
    [][\A c \in Clients :
         MarkReturns(c) =>
            /\ IF failed'[c] \cap {"markRead", "markWrite"} = {}
               THEN MarkedNow(c)
               ELSE views' = views /\ badge' = badge
            /\ result'[c].kind = "value"
            /\ result'[c].user = loc[c].user
            /\ redirect'[c] = NoUrl]_vars

\* C4 witness: a page load that created the record and hid the page's badge
C4_Witness ==
    \E c \in Clients :
        /\ result[c].kind = "value"
        /\ result[c].op = "initPageAuth"
        /\ failed[c] = {}
        /\ views[result[c].user.uid].exists
        /\ Field(views[result[c].user.uid].data, result[c].page) = now
        /\ now > 1
        /\ badge[c][result[c].page].display = "none"

\* initPageAuth of client c has returned a user
Loaded(c) == result[c].kind = "value" /\ result[c].op = "initPageAuth"

\* the mark-viewed step of the load of client c failed
MarkFailed(c) == failed[c] \cap {"markRead", "markWrite"} # {}

\* a badge that shows no count
ShowsZero(b) == b.display # "inline-flex"

\* C8 (as claimed): every failed sub-operation of a page load degrades to a
\* zero count for the affected collection, the load returns the user without
\* redirecting, and the counts of the successful queries are reported
C8_FailuresShowZero ==
    \A c \in Clients :
        Loaded(c) =>
            /\ redirect[c] = NoUrl
            /\ ~IsNull(result[c].user)
            /\ \A col \in Collections :
                  IF \/ "views" \in failed[c]
                     \/ col \in failed[c]
                     \/ col = result[c].page /\ MarkFailed(c)
                  THEN ShowsZero(badge[c][col])
                  ELSE col # result[c].page =>
                          badge[c][col] = UpdateBadge(InitialBadge, counts[c][col])

\* C8 (amended): a failed count query degrades to a count of 0 for its
\* collection, a failed view-state read leaves every badge as the page
\* rendered it, a failed mark-viewed read or write leaves the page's badge at
\* the count just loaded; none of them fails the load, which returns the
\* authenticated user without redirecting, and after a successful view-state
\* read the counts of the successful queries are reported
C8_FailuresDegrade ==
    \A c \in Clients :
        Loaded(c) =>
            /\ redirect[c] = NoUrl
            /\ ~IsNull(result[c].user)
            /\ result[c].user.uid = session[c]
            /\ \A col \in Collections :
                  IF "views" \in failed[c]
                  THEN /\ counts[c][col] = NotCalled
                       /\ col # result[c].page => badge[c][col] = InitialBadge
                  ELSE /\ col \in failed[c] => counts[c][col] = 0
                       /\ counts[c][col] >= 0
                       /\ (col # result[c].page \/ MarkFailed(c)) =>
                             badge[c][col] = UpdateBadge(InitialBadge, counts[c][col])
                       /\ (col = result[c].page /\ ~MarkFailed(c)) =>
                             badge[c][col].display = "none"

\* C8 witness: a load whose query for a collection failed shows no badge for
\* it although an item newer than the recorded timestamp exists
C8_Witness ==
    \E c \in Clients, col \in Collections :
        /\ Loaded(c)
        /\ col \in failed[c]
        /\ counts[c][col] = CountOnError
        /\ badge[c][col].display = "none"
        /\ Recorded(session[c], col)
        /\ StrictlyNewer(col, views[session[c]].data[col]) # {}

\* requireAuth of client c redirects to the login page and never resolves
GateRejects(c) ==
    /\ redirect'[c] = LoginUrl
    /\ pc'[c] = "hung"
    /\ IsNull(currentUserData'[c])
    /\ result'[c].kind = "none"

\* C5: with no session, a failed profile lookup or no profile record for the
\* session's uid, requireAuth redirects to the login URL and never resolves;
\* it resolves only with the profile record of the session's uid
C5_GateFailsClosed ==
    [][\A c \in Clients :
         /\ (pc[c] = "requireAuth" /\ pc'[c] # pc[c] /\ session[c] = NoUser) =>
               GateRejects(c)
         /\ (pc[c] = "getCurrentUserData" /\ pc'[c] # pc[c]) =>
               IF "profile" \in failed'[c] \/ ~users[session[c]].exists
               THEN GateRejects(c)
               ELSE /\ currentUserData'[c] = UserData(session[c], users[session[c]])
                    /\ redirect'[c] = NoUrl
                    /\ pc'[c] = "loadViews"
         /\ (IsNull(currentUserData[c]) /\ ~IsNull(currentUserData'[c])) =>
               /\ pc[c] = "getCurrentUserData"
               /\ currentUserData'[c].uid = session[c]
               /\ users[session[c]].exists]_vars

\* C5 witness: a signed-in identity without a profile record was sent to the
\* login page, the lookup itself having succeeded
C5_Witness ==
    \E c \in Clients :
        /\ pc[c] = "hung"
        /\ redirect[c] = LoginUrl
        /\ session[c] # NoUser
        /\ ~users[session[c]].exists
        /\ failed[c] = {}

\* client c clicks Save in this step
SaveStarts(c) ==
    /\ Idle(c)
    /\ left' < left
    /\ loc'[c].op = "saveProfile" \/ (pc'[c] = "idle" /\ result'[c].kind = "shown")

\* the form of client c holds the profile's email and no new password
NothingToChange(f, cud) ==
    /\ Lower(Trim(f.email)) = Lower(cud.email)
    /\ f.newPassword = ""

\* C6: a save with the email of the current profile and no new password never
\* re-authenticates and never calls updateEmail or updatePassword; the
\* profile-record update is its only backend call
C6_NoReauthWhenUnchanged ==
    [][\A c \in Clients :
         /\ (SaveStarts(c) /\ NothingToChange(form'[c], currentUserData[c])) =>
               /\ calls'[c] = {}
               /\ pc'[c] \in {"idle", "updateDoc"}
         /\ (loc[c].op = "saveProfile" /\ pc'[c] # pc[c]
               /\ NothingToChange(form[c], currentUserData[c])) =>
               /\ pc[c] = "updateDoc"
               /\ pc'[c] = "idle"
               /\ calls'[c] = {"updateDoc:users"}
               /\ idp' = idp]_vars

\* C6 witness: a save of the profile's email in another case went through
\* with the profile update as its only call
C6_Witness ==
    \E c \in Clients :
        /\ result[c] = Shown(TRUE, "")
        /\ calls[c] = {"updateDoc:users"}
        /\ form[c].email = "A@x"

\* saveProfile of client c is rejected at once
SaveRejected(c) ==
    /\ pc'[c] = "idle"
    /\ result'[c].kind = "shown"
    /\ ~result'[c].success
    /\ result'[c].error # ""
    /\ calls'[c] = {}
    /\ users' = users
    /\ idp' = idp
    /\ currentUserData' = currentUserData

\* C7 (as claimed): whenever the confirmation differs from the new password the
\* save is rejected with an error message before any network call
C7_MismatchAlwaysRejected ==
    [][\A c \in Clients :
         (SaveStarts(c) /\ form'[c].confirmPassword # form'[c].newPassword) =>
            SaveRejected(c)]_vars

\* C7 (amended): whenever a new password is entered and the confirmation
\* differs from it the save is rejected with an error message before any
\* network call, the stored profile and the local user data unchanged
C7_NewPasswordMismatchRejected ==
    [][\A c \in Clients :
         (SaveStarts(c) /\ form'[c].newPassword # ""
            /\ form'[c].confirmPassword # form'[c].newPassword) =>
            SaveRejected(c)]_vars

\* C7 witness: a save was rejected for its confirmation
C7_Witness ==
    \E c \in Clients :
        /\ result[c].kind = "shown"
        /\ result[c].error = "New passwords do not match"
        /\ form[c].newPassword = "secret3"
        /\ form[c].currentPassword # ""
        /\ calls[c] = {}

PublicOps ==
    {"loginWithUsername", "logout", "createUser", "getAllUsers", "deleteUserData",
     "initializeFirstAdmin", "saveProfile"}

\* C9: no public operation throws; one whose backend call failed returns
\* success=false with an error message (saveProfile shows the message)
C9_FailuresAreReturned ==
    \A c \in Clients :
        /\ result[c].kind # "thrown"
        /\ (pc[c] = "idle" /\ result[c].kind \in {"value", "shown"}
              /\ result[c].op \in PublicOps /\ failed[c] # {}) =>
              /\ ~result[c].success
              /\ result[c].error # ""

\* C9 witness: createUser's profile write failed after the identity was made
C9_Witness ==
    \E c \in Clients :
        /\ result[c].kind = "value"
        /\ result[c].op = "createUser"
        /\ "setDoc:users" \in failed[c]
        /\ ~result[c].success

\* the session of client c is no administrator's
NonAdmin(c) ==
    \/ session[c] = NoUser
    \/ ~users[session[c]].exists
    \/ users[session[c]].role # "admin"

\* the admin-only operation of client c returns a failure and has done nothing
Refused(c) ==
    /\ pc'[c] = "idle"
    /\ result'[c].kind = "value"
    /\ ~result'[c].success
    /\ users' = users
    /\ idp' = idp
    /\ calls'[c] \cap {"createUserWithEmailAndPassword", "setDoc:users",
                       "deleteDoc:users", "getDocs:allUsers"} = {}

\* C10: createUser, getAllUsers and deleteUserData of a session without a
\* profile record or with a role other than admin return success=false,
\* create no identity, write and delete no profile and return no user list
C10_AdminOnly ==
    [][\A c \in Clients :
         /\ (pc[c] \in {"createAdmin", "listAdmin", "deleteAdmin"} /\ pc'[c] # pc[c]
               /\ (NonAdmin(c) \/ "getDoc:users" \in failed'[c])) => Refused(c)
         /\ (pc[c] = "createTaken" /\ pc'[c] # pc[c] /\ session[c] = NoUser) => Refused(c)
         /\ (Idle(c) /\ left' < left /\ session[c] = NoUser
               /\ (loc'[c].op \in {"getAllUsers", "deleteUserData"}
                   \/ (pc'[c] = "idle" /\ result'[c].kind = "value"
                       /\ result'[c].op \in {"getAllUsers", "deleteUserData"}))) =>
               Refused(c)
         /\ (pc'[c] \in {"createIdentity", "listUsers", "deleteDoc"} /\ pc'[c] # pc[c]) =>
               /\ ~NonAdmin(c)
               /\ pc[c] \in {"createAdmin", "listAdmin", "deleteAdmin"}]_vars

\* C10 witness: a staff member's deleteUserData was refused
C10_Witness ==
    \E c \in Clients :
        /\ result[c].kind = "value"
        /\ result[c].op = "deleteUserData"
        /\ ~result[c].success
        /\ result[c].error = "Only admins can delete users"
        /\ session[c] # NoUser
        /\ users[session[c]].exists
        /\ users[session[c]].role = "staff"
        /\ calls[c] = {"getDoc:users"}

\* C11: no two profile records of the users collection carry the same
\* lower-cased username, whatever the interleaving of createUser and
\* initializeFirstAdmin calls
C11_HandlesUnique ==
    \A u, v \in Uids :
        (users[u].exists /\ users[v].exists /\ users[u].username = users[v].username) =>
           u = v

\* the profile records the bootstrap wrote
SystemProfiles == {u \in Uids : users[u].exists /\ users[u].createdBy = System}

\* C14: initializeFirstAdmin whose listing finds a profile returns
\* success=false and creates neither an identity nor a profile, and at most
\* one profile with createdBy 'system' ever exists
C14_OneBootstrap ==
    [][/\ \A c \in Clients :
            (pc[c] = "bootList" /\ pc'[c] # pc[c] /\ (\E u \in Uids : users[u].exists)) =>
               /\ pc'[c] = "idle"
               /\ ~result'[c].success
               /\ users' = users
               /\ idp' = idp
       /\ Cardinality(SystemProfiles') <= 1]_vars

\* C12: no operation removes an identity from the identity provider or
\* deletes a view-state record; deleteUserData(uid) removes the profile record
\* users/uid and nothing else, and no other operation removes a profile
C12_DeleteOnlyProfile ==
    [][/\ \A u \in Uids :
            /\ idp[u].exists => idp'[u].exists
            /\ views[u].exists => views'[u] = views[u]
            /\ (users[u].exists /\ ~users'[u].exists) =>
                  \E c \in Clients : pc[c] = "deleteDoc" /\ loc[c].uid = u
       /\ \A c \in Clients :
            (pc[c] = "deleteDoc" /\ pc'[c] # pc[c]) =>
               /\ idp' = idp
               /\ views' = views
               /\ \A v \in Uids \ {loc[c].uid} : users'[v] = users[v]
               /\ result'[c].success => ~users'[loc[c].uid].exists]_vars

\* C12 witness: the staff member's profile was deleted; the credential record
\* and the view-state record are still there
C12_Witness ==
    \E c \in Clients :
        /\ result[c].kind = "value"
        /\ result[c].op = "deleteUserData"
        /\ result[c].success
        /\ ~users[2].exists
        /\ idp[2].exists
        /\ views[2].exists

\* C15: deleteUserData(uid) with uid the session's own uid returns
\* success=false and leaves every profile record, the caller's included, as
\* it was; the deletion is never issued for the caller's own uid
C15_NoSelfDelete ==
    [][\A c \in Clients :
         /\ (loc[c].op = "deleteUserData" /\ loc[c].uid = session[c] /\ pc'[c] = "idle") =>
               /\ result'[c].kind = "value"
               /\ ~result'[c].success
               /\ users' = users
         /\ pc'[c] = "deleteDoc" => loc'[c].uid # session'[c]]_vars

\* C15 witness: an administrator's deletion of their own account was refused
C15_Witness ==
    \E c \in Clients :
        /\ result[c].kind = "value"
        /\ result[c].op = "deleteUserData"
        /\ result[c].error = "You cannot delete your own account"
        /\ session[c] # NoUser
        /\ users[session[c]].exists
        /\ users[session[c]].role = "admin"

\* the mark-viewed write of client c is answered in this step
MarkWritten(c) == pc[c] = "markWrite" /\ pc'[c] # pc[c] /\ "markWrite" \notin failed'[c]

\* C13: an item created between the count query and the mark-viewed write of
\* one page load is treated as seen: the write sets lastViewed to a time not
\* before the creation of any item the collection holds, a recorded timestamp
\* never moves back, and no count includes an item created at or before the
\* recorded timestamp
C13_MissedItemStaysSeen ==
    [][/\ \A c \in Clients :
            MarkWritten(c) =>
               \A i \in DOMAIN items[loc[c].page] :
                  items[loc[c].page][i] <= views'[loc[c].user.uid].data[loc[c].page]
       /\ \A u \in Uids, col \in Collections :
            Recorded(u, col) =>
               /\ Recorded(u, col)'
               /\ views'[u].data[col] >= views[u].data[col]
       /\ \A c \in Clients, col \in Collections :
            CountReturns(c, col) =>
               counts'[c][col] <=
                  Cardinality(StrictlyNewer(col, views[loc[c].user.uid].data[col]))]_vars

\* C13 witness: a page load displayed a count of 0 for its collection, an
\* item newer than the timestamp it read was created after that query and
\* before the load's write, which moved lastViewed to the item's creation
\* time or later
C13_Witness ==
    \E c \in Clients, col \in Collections :
        /\ Loaded(c)
        /\ result[c].page = col
        /\ failed[c] = {}
        /\ replaced[c].old # Undefined
        /\ counts[c][col] = 0
        /\ \E i \in 1..replaced[c].size :
              /\ replaced[c].old < items[col][i]
              /\ items[col][i] <= views[session[c]].data[col]

\* the email of the credential record of its user when the saveProfile of
\* client c began: updateEmail is the one call that changes it, and it runs
\* after a re-authentication with the local profile email
EmailAtStart(c) ==
    IF pc[c] \in {"updatePassword", "updateDoc"} /\ loc[c].emailChanged
    THEN Lower(currentUserData[c].email)
    ELSE idp[loc[c].user].email

\* C16: when the profile record's email equals the credential record's email
\* before saveProfile, it does so when saveProfile completes, whichever of its
\* calls fails
C16_EmailsStayConsistent ==
    [][\A c \in Clients :
         (/\ loc[c].op = "saveProfile"
          /\ pc'[c] = "idle"
          /\ loc[c].user # NoUser
          /\ users[loc[c].user].exists
          /\ users[loc[c].user].email = EmailAtStart(c)) =>
            \/ ~users'[loc[c].user].exists
            \/ ~idp'[loc[c].user].exists
            \/ users'[loc[c].user].email = idp'[loc[c].user].email]_vars

\* C17: when createUser or initializeFirstAdmin completes, the identity it
\* created in the identity provider has a profile record
C17_NoOrphanIdentity ==
    [][\A c \in Clients :
         (pc[c] \in {"createProfile", "bootProfile"} /\ pc'[c] = "idle") =>
            /\ idp'[loc[c].newUid].exists
            /\ users'[loc[c].newUid].exists]_vars

\* the backend calls initPageAuth makes once the gate has let it through
GatedCalls == {"getDoc:views", "getDocs:items", "setDoc:views"}

\* initPageAuth of client c is past requireAuth
BehindGate(c) ==
    /\ loc[c].op = "initPageAuth"
    /\ pc[c] \in {"loadViews", "counting", "markRead", "markWrite"}

\* what holds of a client whose initPageAuth is past the gate, and of one
\* whose initPageAuth is not
GateHeld(c) ==
    /\ BehindGate(c) =>
          /\ session[c] # NoUser
          /\ users[session[c]].exists
          /\ loc[c].user = UserData(session[c], users[session[c]])
          /\ currentUserData[c] = loc[c].user
    /\ (pc[c] \in {"requireAuth", "getCurrentUserData", "hung"}) =>
          calls[c] \cap GatedCalls = {}
    /\ (BehindGate(c) /\ pc[c] \in {"markRead", "markWrite"}) =>
          \/ "views" \in failed[c] /\ \A col \in Collections : counts[c][col] = NotCalled
          \/ \A col \in Collections : counts[c][col] # NotCalled

\* C18: initPageAuth issues its view-state read, its count queries and its
\* mark-viewed write only after requireAuth resolved with the profile record
\* of the session's uid, reads and writes the view-state record of that uid
\* only, and starts the mark-viewed write with no count query outstanding
C18_NothingBeforeGate ==
    [][\A c \in Clients :
         /\ GateHeld(c)
         /\ GateHeld(c)'
         /\ (BehindGate(c) /\ views' # views) =>
               /\ pc[c] = "markWrite"
               /\ \A u \in Uids \ {session[c]} : views'[u] = views[u]]_vars

\* C18 witness: a signed-in user's page load is about to write its
\* mark-viewed timestamp, its count queries answered
C18_Witness ==
    \E c \in Clients :
        /\ BehindGate(c)
        /\ pc[c] = "markWrite"
        /\ "getDocs:items" \in calls[c]
        /\ \A col \in Collections : counts[c][col] # NotCalled
        /\ loc[c].user.uid = session[c]

====
